---- MODULE Spec2Model ----
(***************************************************************************)
(* Elements of a tensor product of Kirillov-Reshetikhin tableaux           *)
(* (sage/combinat/rigged_configurations/tensor_product_kr_tableaux_element)*)
(*                                                                         *)
(* An element is the sequence of its factors.  Text is a sequence of       *)
(* one-character strings, so that lengths and offsets can be measured.     *)
(* The factors (KR tableaux), the base class constructor and the bijection *)
(* engine are collaborators of the element class.                          *)
(***************************************************************************)
EXTENDS Integers, Sequences, FiniteSets, TLC

\* Letters of the crystal alphabet are 1..MaxSym (type A, rank MaxSym - 1).
MaxSym == 2

\* Number of factors a parent declares.
MaxFactors == 2

\* Factor shapes <<rows, columns>> the parents are built from: a parent
\* declares MaxFactors consecutive shapes of this repeating pattern.
ShapePattern == <<<<1, 2>>, <<2, 1>>, <<1, 1>>>>

Shapes == {ShapePattern[k] : k \in 1..Len(ShapePattern)}

Alphabet == 1..MaxSym

\* Sequences over S of length lo..hi.
SeqsOf(S, lo, hi) == UNION {[1..n -> S] : n \in lo..hi}

Max2(a, b) == IF a >= b THEN a ELSE b

-----------------------------------------------------------------------------
(* Python text helpers                                                     *)

Digits == <<"0", "1", "2", "3", "4", "5", "6", "7", "8", "9">>

RECURSIVE NatStr(_)
NatStr(n) == IF n < 10 THEN <<Digits[n + 1]>>
             ELSE NatStr(n \div 10) \o <<Digits[(n % 10) + 1]>>

\* str(n) for an integer n
IntStr(n) == IF n < 0 THEN <<"-">> \o NatStr(0 - n) ELSE NatStr(n)

\* ' ' * n
Blanks(n) == [k \in 1..n |-> " "]

\* sep.join(parts)
RECURSIVE StrJoin(_, _)
StrJoin(sep, parts) ==
    IF Len(parts) = 0 THEN <<>>
    ELSE IF Len(parts) = 1 THEN parts[1]
    ELSE parts[1] \o sep \o StrJoin(sep, Tail(parts))

\* text.splitlines(): the lines of text, without their line ends
RECURSIVE SplitLinesFrom(_, _, _)
SplitLinesFrom(text, k, cur) ==
    IF k > Len(text) THEN (IF Len(cur) = 0 THEN <<>> ELSE <<cur>>)
    ELSE IF text[k] = "\n" THEN <<cur>> \o SplitLinesFrom(text, k + 1, <<>>)
    ELSE SplitLinesFrom(text, k + 1, Append(cur, text[k]))

splitlines(text) == SplitLinesFrom(text, 1, <<>>)

\* "%3s" % str(x)
Pad3(x) == Blanks(Max2(0, 3 - Len(IntStr(x)))) \o IntStr(x)

TensorSep == <<" ", "(", "X", ")", " ">>

-----------------------------------------------------------------------------
(* The factors: KR tableaux, given by their rows                           *)

EmptyTableau == <<>>

\* parent.crystals[i](*tab) for the crystal of shape <<r, s>>: tab lists the
\* columns left to right, each column bottom to top.
FactorValid(shape, tab) == Len(tab) = shape[1] * shape[2]

FactorFromList(shape, tab) ==
    [i \in 1..shape[1] |->
        [j \in 1..shape[2] |-> tab[(j - 1) * shape[1] + (shape[1] - i + 1)]]]

\* repr(factor): the Python list of its rows
FactorRowRepr(row) == <<"[">> \o StrJoin(<<",", " ">>, [j \in 1..Len(row) |-> IntStr(row[j])]) \o <<"]">>

FactorRepr(f) == <<"[">> \o StrJoin(<<",", " ">>, [i \in 1..Len(f) |-> FactorRowRepr(f[i])]) \o <<"]">>

\* factor._repr_diagram(): one line per row, each entry right-justified in 3
RECURSIVE ConcatAll(_)
ConcatAll(parts) == IF Len(parts) = 0 THEN <<>> ELSE parts[1] \o ConcatAll(Tail(parts))

FactorReprDiagram(f) ==
    StrJoin(<<"\n">>, [i \in 1..Len(f) |-> ConcatAll([j \in 1..Len(f[i]) |-> Pad3(f[i][j])])])

\* factor.classical_weight(): the content of the tableau, a vector in Z^MaxSym
RECURSIVE CountIn(_, _)
CountIn(row, a) ==
    IF Len(row) = 0 THEN 0
    ELSE (IF row[1] = a THEN 1 ELSE 0) + CountIn(Tail(row), a)

FactorWeight(f) == [a \in Alphabet |-> CountIn(ConcatAll(f), a)]

\* factor.to_kirillov_reshetikhin_crystal(): in type A the filling map keeps
\* the tableau; the crystal element is given by its column reading.
FactorToKRCrystal(f) ==
    LET r == Len(f)
        s == IF r = 0 THEN 0 ELSE Len(f[1])
    IN [crystal |-> <<r, s>>,
        word |-> [k \in 1..(r * s) |-> f[r - ((k - 1) % r)][((k - 1) \div r) + 1]]]

\* All factors of a given shape, and every factor a caller can hand over.
FactorsOf(shape) == {FactorFromList(shape, tab) : tab \in [1..(shape[1] * shape[2]) -> Alphabet]}

-----------------------------------------------------------------------------
(* Construction                                                            *)

Raise(name) == [kind |-> "error", exc |-> name]

\* zip(parent.crystals, pathlist): symbol lists beyond the last crystal are
\* dropped
RECURSIVE BuildFactors_Zip(_, _, _)
BuildFactors_Zip(cr, pathlist, built) ==
    LET i == Len(built) + 1
    IN IF i > Len(pathlist) \/ i > Len(cr)
       THEN [kind |-> "ok", val |-> built, built |-> Len(built)]
       ELSE IF ~FactorValid(cr[i], pathlist[i])
            THEN [kind |-> "error", exc |-> "ValueError", built |-> Len(built)]
       ELSE BuildFactors_Zip(cr, pathlist, Append(built, FactorFromList(cr[i], pathlist[i])))

\* [parent.crystals[i](*tab) for i, tab in enumerate(pathlist)], evaluated
\* left to right: `built` are the factors built so far.
RECURSIVE BuildFactors(_, _, _)
BuildFactors(cr, pathlist, built) ==
    LET i == Len(built) + 1
    IN IF i > Len(pathlist) THEN [kind |-> "ok", val |-> built, built |-> Len(built)]
       ELSE IF i > Len(cr)
            THEN [kind |-> "error", exc |-> "IndexError", built |-> Len(built)]
       ELSE IF ~FactorValid(cr[i], pathlist[i])
            THEN [kind |-> "error", exc |-> "ValueError", built |-> Len(built)]
       ELSE BuildFactors(cr, pathlist, Append(built, FactorFromList(cr[i], pathlist[i])))

\* TensorProductOfRegularCrystalsElement.__init__(self, parent, list): keeps
\* the list it is given as the factors of the element.
BaseInit(cr, list) == [kind |-> "ok", val |-> list]

\* __init__(self, parent, pathlist=...)
InitFromPathlist(cr, pathlist) ==
    LET fs == BuildFactors(cr, pathlist, <<>>)
    IN IF fs.kind = "error" THEN fs
       ELSE [kind |-> "ok", val |-> BaseInit(cr, fs.val).val, built |-> fs.built]

\* __init__(self, parent, list)
InitFromList(cr, list) ==
    [kind |-> "ok", val |-> BaseInit(cr, list).val, built |-> 0]

-----------------------------------------------------------------------------
(* _repr_                                                                  *)

\* for i in range(1, len(self)): ret_str += " (X) " + repr(self[i])
RECURSIVE ReprLoop(_, _, _)
ReprLoop(fs, i, ret_str) ==
    IF i > Len(fs) THEN ret_str
    ELSE ReprLoop(fs, i + 1, ret_str \o TensorSep \o FactorRepr(fs[i]))

\* the loop started at range(0, ...): the first factor is rendered twice
_repr_FromZero(fs) ==
    IF Len(fs) = 0 THEN Raise("IndexError")
    ELSE [kind |-> "ok", val |-> ReprLoop(fs, 1, FactorRepr(fs[1]))]

_repr_(fs) ==
    IF Len(fs) = 0 THEN Raise("IndexError")
    ELSE [kind |-> "ok", val |-> ReprLoop(fs, 2, FactorRepr(fs[1]))]

-----------------------------------------------------------------------------
(* _repr_diagram and pp                                                    *)

RECURSIVE MaxLenOf(_)
MaxLenOf(comp) ==
    IF Len(comp) = 1 THEN Len(comp[1]) ELSE Max2(Len(comp[1]), MaxLenOf(Tail(comp)))

\* col_len = [len(t) > 0 and len(t[0]) or 1 for t in comp]
ColLen(comp) ==
    [c \in 1..Len(comp) |->
        IF Len(comp[c]) > 0 /\ Len(comp[c][1]) # 0 THEN Len(comp[c][1]) ELSE 1]

\* a factor that has no such row is left out instead of blank-padded
DiagramRow_NoPad(comp, col_len, row) ==
    ConcatAll([c \in 1..Len(comp) |->
        (IF c > 1 THEN Blanks(5) ELSE <<>>)
        \o (IF row <= Len(comp[c]) THEN comp[c][row] ELSE <<>>)])

\* the body of `for c in range(num_comp)` for one row (rows count from 1)
DiagramRow(comp, col_len, row) ==
    ConcatAll([c \in 1..Len(comp) |->
        (IF c > 1 THEN Blanks(5) ELSE <<>>)
        \o (IF row <= Len(comp[c]) THEN comp[c][row] ELSE Blanks(col_len[c]))])

\* for row in xrange(1, num_rows): diag += '\n' ...
RECURSIVE DiagramLoop(_, _, _, _, _)
DiagramLoop(comp, col_len, num_rows, row, diag) ==
    IF row > num_rows THEN diag
    ELSE DiagramLoop(comp, col_len, num_rows, row + 1,
                     diag \o <<"\n">> \o DiagramRow(comp, col_len, row))

_repr_diagram(fs) ==
    LET comp == [c \in 1..Len(fs) |-> splitlines(FactorReprDiagram(fs[c]))]
    IN IF Len(comp) = 0 THEN Raise("ValueError")
       ELSE IF \E c \in 1..Len(comp) : Len(comp[c]) = 0 THEN Raise("IndexError")
       ELSE [kind |-> "ok",
             val |-> DiagramLoop(comp, ColLen(comp), MaxLenOf(comp), 2,
                                 StrJoin(TensorSep, [c \in 1..Len(comp) |-> comp[c][1]]))]

\* print(self._repr_diagram())
pp(fs) ==
    LET d == _repr_diagram(fs)
    IN IF d.kind = "error" THEN d
       ELSE [kind |-> "ok", val |-> <<>>, printed |-> d.val \o <<"\n">>]

-----------------------------------------------------------------------------
(* classical_weight                                                        *)

\* The integer 0 that sum() starts from; it has no coordinates.
PyInt0 == <<>>

\* a + b, where the integer 0 is absorbed by a lattice element
WeightAdd(a, b) ==
    IF a = PyInt0 THEN b
    ELSE IF b = PyInt0 THEN a
    ELSE [k \in Alphabet |-> a[k] + b[k]]

\* sum(ws): ((0 + ws[0]) + ws[1]) + ...
RECURSIVE PySum(_, _)
PySum(ws, acc) == IF Len(ws) = 0 THEN acc ELSE PySum(Tail(ws), WeightAdd(acc, ws[1]))

\* the sum taken over self[1:]
classical_weight_SkipFirst(fs) ==
    [kind |-> "ok", val |-> PySum([c \in 1..(Len(fs) - 1) |-> FactorWeight(fs[c + 1])], PyInt0)]

classical_weight(fs) ==
    [kind |-> "ok", val |-> PySum([c \in 1..Len(fs) |-> FactorWeight(fs[c])], PyInt0)]

\* The element of the ambient weight lattice a value stands for.
InLattice(w) == IF w = PyInt0 THEN [k \in Alphabet |-> 0] ELSE w

-----------------------------------------------------------------------------
(* to_rigged_configuration                                                 *)

EngineErrors == {"NotImplementedError", "ValueError"}

\* What the bijection engine does with an element: it fails when it is
\* constructed, fails while it runs, or runs to completion.
EngineOutcomes ==
    {[at |-> "done", exc |-> "none"]}
    \cup {[at |-> a, exc |-> e] : a \in {"init", "run"}, e \in EngineErrors}

\* KRTToRCBijection(tp_krt).run(display_steps)
KRTToRCBijectionRun(fs, display_steps, eng) ==
    IF eng.at = "done" THEN [kind |-> "ok", val |-> [rc_of |-> fs]]
    ELSE Raise(eng.exc)

\* the engine's error caught, and None returned
to_rigged_configuration_Swallow(fs, display_steps, eng) ==
    LET r == KRTToRCBijectionRun(fs, display_steps, eng)
    IN IF r.kind = "error" THEN [kind |-> "ok", val |-> <<>>] ELSE r

to_rigged_configuration(fs, display_steps, eng) ==
    KRTToRCBijectionRun(fs, display_steps, eng)

-----------------------------------------------------------------------------
(* to_tensor_product_of_kirillov_reshetikhin_crystals                      *)

\* TP(*elements): the element of the tensor product of KR crystals
TPCall(elements) == [kind |-> "ok", val |-> elements]

\* the images collected in reverse order
RECURSIVE KRCrystalsOf_Reversed(_, _)
KRCrystalsOf_Reversed(fs, acc) ==
    IF Len(fs) = 0 THEN acc
    ELSE KRCrystalsOf_Reversed(Tail(fs), <<FactorToKRCrystal(fs[1])>> \o acc)

\* [x.to_kirillov_reshetikhin_crystal() for x in self]
RECURSIVE KRCrystalsOf(_, _)
KRCrystalsOf(fs, acc) ==
    IF Len(fs) = 0 THEN acc
    ELSE KRCrystalsOf(Tail(fs), Append(acc, FactorToKRCrystal(fs[1])))

to_tensor_product_of_kirillov_reshetikhin_crystals(fs) ==
    TPCall(KRCrystalsOf(fs, <<>>))

-----------------------------------------------------------------------------
VARIABLES
    crystals,   \* parent.crystals: the shape of each declared factor
    self,       \* the element: whether it exists, and its factors
    op,         \* the last call
    arg,        \* its argument
    ret         \* its outcome

vars == <<crystals, self, op, arg, ret>>

Parents ==
    {[i \in 1..MaxFactors |-> ShapePattern[((k + i - 2) % Len(ShapePattern)) + 1]] :
        k \in 1..Len(ShapePattern)}

MaxCells == CHOOSE m \in {sh[1] * sh[2] : sh \in Shapes} :
                \A sh \in Shapes : sh[1] * sh[2] <= m

\* Symbol lists a caller passes for one factor.
SymLists == SeqsOf(Alphabet, 0, MaxCells)

\* Factors a caller can pass for position i: those of the i-th crystal, and
\* a tableau without rows.
PrebuiltAt(cr, i) ==
    IF i <= Len(cr) THEN FactorsOf(cr[i]) \cup {EmptyTableau} ELSE {EmptyTableau}

NoElement == [exists |-> FALSE, factors |-> <<>>]

Element(fs) == [exists |-> TRUE, factors |-> fs]

Init ==
    /\ crystals \in Parents
    /\ self = NoElement
    /\ op = "none"
    /\ arg = <<>>
    /\ ret = [kind |-> "none"]

\* KRT(pathlist=...)
ConstructPathlist ==
    /\ op = "none"
    /\ \E n \in 0..(Len(crystals) + 1) : \E pathlist \in [1..n -> SymLists] :
         LET r == InitFromPathlist(crystals, pathlist)
         IN /\ op' = "init_pathlist"
            /\ arg' = pathlist
            /\ ret' = r
            /\ self' = IF r.kind = "ok" THEN Element(r.val) ELSE NoElement
    /\ UNCHANGED crystals

\* KRT.element_class(KRT, list)
ConstructList ==
    /\ op = "none"
    /\ \E n \in 0..(Len(crystals) + 1) :
       \E list \in {l \in [1..n -> UNION {PrebuiltAt(crystals, i) : i \in 1..n}] :
                        \A i \in 1..n : l[i] \in PrebuiltAt(crystals, i)} :
         LET r == InitFromList(crystals, list)
         IN /\ op' = "init_list"
            /\ arg' = list
            /\ ret' = r
            /\ self' = IF r.kind = "ok" THEN Element(r.val) ELSE NoElement
    /\ UNCHANGED crystals

Call_repr_ ==
    /\ self.exists
    /\ op' = "_repr_"
    /\ arg' = <<>>
    /\ ret' = _repr_(self.factors)
    /\ UNCHANGED <<crystals, self>>

Call_repr_diagram ==
    /\ self.exists
    /\ op' = "_repr_diagram"
    /\ arg' = <<>>
    /\ ret' = _repr_diagram(self.factors)
    /\ UNCHANGED <<crystals, self>>

Call_pp ==
    /\ self.exists
    /\ op' = "pp"
    /\ arg' = <<>>
    /\ ret' = pp(self.factors)
    /\ UNCHANGED <<crystals, self>>

\* the weights summed by popping the factors off the element
Call_classical_weight_Consuming ==
    /\ self.exists
    /\ op' = "classical_weight"
    /\ arg' = <<>>
    /\ ret' = classical_weight(self.factors)
    /\ self' = Element(<<>>)
    /\ UNCHANGED crystals

Call_classical_weight ==
    /\ self.exists
    /\ op' = "classical_weight"
    /\ arg' = <<>>
    /\ ret' = classical_weight(self.factors)
    /\ UNCHANGED <<crystals, self>>

Call_to_rigged_configuration ==
    /\ self.exists
    /\ \E display_steps \in BOOLEAN : \E eng \in EngineOutcomes :
         /\ op' = "to_rigged_configuration"
         /\ arg' = eng
         /\ ret' = to_rigged_configuration(self.factors, display_steps, eng)
    /\ UNCHANGED <<crystals, self>>

Call_to_tensor_product_of_kirillov_reshetikhin_crystals ==
    /\ self.exists
    /\ op' = "to_tensor_product_of_kirillov_reshetikhin_crystals"
    /\ arg' = <<>>
    /\ ret' = to_tensor_product_of_kirillov_reshetikhin_crystals(self.factors)
    /\ UNCHANGED <<crystals, self>>

Next ==
    \/ ConstructPathlist
    \/ ConstructList
    \/ Call_repr_
    \/ Call_repr_diagram
    \/ Call_pp
    \/ Call_classical_weight
    \/ Call_to_rigged_configuration
    \/ Call_to_tensor_product_of_kirillov_reshetikhin_crystals

Spec == Init /\ [][Next]_vars

-----------------------------------------------------------------------------
(* Properties                                                              *)

IsCall(name) == op = name /\ self.exists

\* A position of a pathlist at which building the factor fails: there is no
\* such crystal, or the symbol list does not fill the crystal's shape.
BadAt(cr, pathlist, i) == i > Len(cr) \/ ~FactorValid(cr[i], pathlist[i])

HasBad(cr, pathlist) == \E i \in 1..Len(pathlist) : BadAt(cr, pathlist, i)

FirstBad(cr, pathlist) ==
    CHOOSE i \in 1..Len(pathlist) :
        BadAt(cr, pathlist, i) /\ \A j \in 1..(i - 1) : ~BadAt(cr, pathlist, j)

\* C1: a construction from a pathlist whose length differs from the parent's
\* factor count (shorter or longer) fails with an error and yields no element.
C1_LengthMismatchRejected ==
    (op = "init_pathlist" /\ Len(arg) # Len(crystals))
        => (ret.kind = "error" /\ ~self.exists)

\* C3: for an element with at least one factor, _repr_ is the renders of the
\* factors, in order, joined by " (X) ": one separator between consecutive
\* factors, none before the first or after the last.
C3_ReprIsJoin ==
    (IsCall("_repr_") /\ Len(self.factors) >= 1)
        => /\ ret.kind = "ok"
           /\ ret.val = StrJoin(TensorSep,
                  [i \in 1..Len(self.factors) |-> FactorRepr(self.factors[i])])

C3_Witness ==
    /\ IsCall("_repr_")
    /\ Len(self.factors) >= 2
    /\ ret.kind = "ok"
    /\ self.factors[1] # self.factors[2]

\* The a-th coordinate of the sum of the factors' classical weights.
RECURSIVE CoordSum(_, _)
CoordSum(fs, a) ==
    IF Len(fs) = 0 THEN 0 ELSE FactorWeight(fs[1])[a] + CoordSum(Tail(fs), a)

\* C4: classical_weight() is, in the ambient weight lattice, the vector sum
\* of the classical weights of the factors.
C4_WeightIsSum ==
    IsCall("classical_weight")
        => /\ ret.kind = "ok"
           /\ InLattice(ret.val) = [a \in Alphabet |-> CoordSum(self.factors, a)]

C4_Witness ==
    /\ IsCall("classical_weight")
    /\ Len(self.factors) >= 2
    /\ FactorWeight(self.factors[1]) # FactorWeight(self.factors[2])
    /\ ret.kind = "ok"

\* The diagram lines of each factor of an element.
CompOf(fs) == [c \in 1..Len(fs) |-> splitlines(FactorReprDiagram(fs[c]))]

Rectangular(t) == \A k \in 1..Len(t) : Len(t[k]) = Len(t[1])

WidthOf(t) == IF Len(t) = 0 THEN 0 ELSE Len(t[1])

\* Where the columns of factor c start: the widths of the factors before it
\* and 5 for each separator gap.
RECURSIVE OffsetOf(_, _)
OffsetOf(comp, c) ==
    IF c = 1 THEN 0 ELSE OffsetOf(comp, c - 1) + WidthOf(comp[c - 1]) + 5

\* C5: when the factor diagrams are rectangular, every line of the diagram
\* has the same length, the sum of the factor widths plus 5 per gap; every
\* factor's columns start at the same offset in every line, and below its
\* last row a factor contributes blanks of its own width.
C5_DiagramAligned ==
    (IsCall("_repr_diagram") /\ \A c \in 1..Len(self.factors) : Rectangular(CompOf(self.factors)[c]))
        => LET comp == CompOf(self.factors)
               n == Len(comp)
           IN /\ (n >= 1 /\ \A c \in 1..n : Len(comp[c]) >= 1) => ret.kind = "ok"
              /\ ret.kind = "ok" =>
                   LET lines == splitlines(ret.val)
                   IN /\ \A c \in 1..n : Len(comp[c]) <= Len(lines)
                      /\ \E c \in 1..n : Len(comp[c]) = Len(lines)
                      /\ \A l \in 1..Len(lines) :
                           /\ Len(lines[l]) = OffsetOf(comp, n) + WidthOf(comp[n])
                           /\ \A c \in 1..n :
                                SubSeq(lines[l], OffsetOf(comp, c) + 1,
                                       OffsetOf(comp, c) + WidthOf(comp[c]))
                                  = IF l <= Len(comp[c]) THEN comp[c][l]
                                    ELSE Blanks(WidthOf(comp[c]))

\* a shorter factor stands before a taller one of another width
C5_Witness ==
    /\ IsCall("_repr_diagram")
    /\ ret.kind = "ok"
    /\ Len(self.factors) >= 2
    /\ LET comp == CompOf(self.factors)
       IN /\ Len(comp[1]) < Len(comp[2])
          /\ WidthOf(comp[1]) # WidthOf(comp[2])

\* C6: an element with a factor whose diagram has no rows is still rendered
\* by _repr_diagram: the call returns a diagram, in which that factor is a
\* one-column blank in every line.
C6_ZeroRowFactorRendered ==
    (IsCall("_repr_diagram")
       /\ \E c \in 1..Len(self.factors) : Len(CompOf(self.factors)[c]) = 0)
        => ret.kind = "ok"

\* C7 as stated: a construction from a pathlist that fails has built no
\* factor before it is rejected, and returns no element.
C7_RejectedBeforeAnyFactor ==
    (op = "init_pathlist" /\ ret.kind = "error")
        => (ret.built = 0 /\ ~self.exists)

\* C7 amended: a construction from a pathlist with a bad position (beyond
\* the parent's factors, or a symbol list invalid for the shape there) is
\* rejected as a whole and returns no element; the factors before the first
\* bad position have been built by then.
C7_RejectedAsAWhole ==
    (op = "init_pathlist" /\ HasBad(crystals, arg))
        => /\ ret.kind = "error"
           /\ ~self.exists
           /\ ret.built = FirstBad(crystals, arg) - 1

C7_Witness ==
    /\ op = "init_pathlist"
    /\ HasBad(crystals, arg)
    /\ ret.kind = "error"
    /\ ret.built >= 1

\* C8: the tensor product of KR crystals has as many factors as the element,
\* and its i-th factor is the KR crystal image of the element's i-th factor.
C8_CrystalsFactorwise ==
    IsCall("to_tensor_product_of_kirillov_reshetikhin_crystals")
        => /\ ret.kind = "ok"
           /\ Len(ret.val) = Len(self.factors)
           /\ \A i \in 1..Len(self.factors) :
                ret.val[i] = FactorToKRCrystal(self.factors[i])

C8_Witness ==
    /\ IsCall("to_tensor_product_of_kirillov_reshetikhin_crystals")
    /\ ret.kind = "ok"
    /\ Len(self.factors) >= 2
    /\ FactorToKRCrystal(self.factors[1]) # FactorToKRCrystal(self.factors[2])

\* C9: once the element is constructed, no call changes its factors: same
\* length, same factors, same order.
C9_FactorsNeverChange == [][self.exists => self' = self]_vars

C9_Witness ==
    /\ self.exists
    /\ Len(self.factors) >= 2
    /\ op \in {"_repr_", "_repr_diagram", "pp", "classical_weight",
               "to_rigged_configuration",
               "to_tensor_product_of_kirillov_reshetikhin_crystals"}

\* C10: an error the bijection engine raises, when it is constructed or
\* while it runs, is the outcome of to_rigged_configuration(): the same
\* error, and no result.
C10_EngineErrorPropagates ==
    (IsCall("to_rigged_configuration") /\ arg.at # "done")
        => ret = Raise(arg.exc)

C10_Witness ==
    /\ IsCall("to_rigged_configuration")
    /\ arg.at = "run"
    /\ ret.kind = "error"
====
